---- MODULE Spec2Model ----
(***************************************************************************)
(* Ext.ux.WebSocketManager (src/ux/WebSocketManager.js): a singleton that  *)
(* keeps the registered websockets in an Ext.util.HashMap keyed by url and *)
(* fans send()/disconnect() out to them.                                   *)
(*                                                                         *)
(* JavaScript values are records [t |-> type, v |-> payload]; the payload  *)
(* is always a sequence: <<s>> for the string s, <<id>> for the websocket  *)
(* object id, <<>> for undefined and null, the elements for an array.      *)
(***************************************************************************)
EXTENDS Integers, Sequences, FiniteSets, TLC

VARIABLES wsList, ready, faulty, last

vars == <<wsList, ready, faulty, last>>

(* ---------------------------- bounds ----------------------------------- *)
\* longest array handed to register / unregister / multicast
MaxArgs == 2
\* how many websockets may have a throwing send()/disconnect() at a time
MaxFaulty == 1

(* ------------------------- JavaScript values --------------------------- *)
Undefined == [t |-> "undefined", v |-> <<>>]
Null == [t |-> "null", v |-> <<>>]
Str(s) == [t |-> "string", v |-> <<s>>]
Obj(id) == [t |-> "object", v |-> <<id>>]
Arr(items) == [t |-> "array", v |-> items]
\* a caller's function, by what it does with the websocket it is given, the
\* websocket it names, and what it returns
Fn(does, target, returns) == [t |-> "function", v |-> <<does, target, returns>>]
Bool(b) == [t |-> "boolean", v |-> <<IF b THEN "true" ELSE "false">>]

\* what String(x) gives for a plain object such as an Ext.ux.WebSocket
ObjectString == "[object Object]"

\* the property name a value turns into when it is used as map[key]
ToKey(x) ==
  CASE x.t = "string" -> x.v[1]
    [] x.t = "object" -> ObjectString
    [] x.t = "undefined" -> "undefined"
    [] x.t = "null" -> "null"
    [] OTHER -> ""

isObject(x) == x.t = "object"
isArray(x) == x.t = "array"
\* isEmpty that only knows the empty string
isEmpty_stringOnly(x) == x.t = "string" /\ x.v[1] = ""

isEmpty(x) ==
  \/ x.t \in {"undefined", "null"}
  \/ x.t = "string" /\ x.v[1] = ""
  \/ x.t = "array" /\ x.v = <<>>

(* ----------------------------- websockets ------------------------------ *)
Sockets == {"a", "b", "c", "e", "f"}

\* the url config of each websocket; a and b share one url
url(ws) ==
  CASE ws = "a" -> Str("u1")
    [] ws = "b" -> Str("u1")
    [] ws = "c" -> Str("u2")
    [] ws = "e" -> Str("")
    [] OTHER -> Undefined

Events == {"e"}
Messages == {"m"}

(* --------------------------- Ext.util.HashMap -------------------------- *)
\* the map is the sequence of its [key, value] entries in insertion order
KeyIndex(list, key) ==
  IF \E i \in DOMAIN list : list[i].key = key
  THEN CHOOSE i \in DOMAIN list : list[i].key = key
  ELSE 0

containsKey(list, key) == KeyIndex(list, key) # 0

\* get that falls back on the oldest entry
hmGet_oldest(list, key) ==
  IF list = <<>> THEN Undefined
  ELSE IF containsKey(list, key) THEN Obj(list[KeyIndex(list, key)].value)
  ELSE Obj(list[1].value)

hmGet(list, key) ==
  IF containsKey(list, key) THEN Obj(list[KeyIndex(list, key)].value) ELSE Undefined

\* add that never replaces
add_append(list, key, value) == Append(list, [key |-> key, value |-> value])

add(list, key, value) ==
  IF containsKey(list, key)
  THEN [list EXCEPT ![KeyIndex(list, key)].value = value]
  ELSE Append(list, [key |-> key, value |-> value])

\* removeAtKey that empties the map
removeAtKey_all(list, key) == <<>>

\* removeAtKey that forgets to delete
removeAtKey_keep(list, key) == list

removeAtKey(list, key) == SelectSeq(list, LAMBDA en : en.key # key)

(* ------------------------ Ext.ux.WebSocket ----------------------------- *)
\* a websocket can only be opened towards a non-empty url
Connectable == {ws \in Sockets : ~isEmpty(url(ws))}

isReady(rdy, ws) == ws \in rdy

Call(ws, method, event, message) ==
  [ws |-> ws, method |-> method, event |-> event, message |-> message]

(* ---------------------- argument normalisation ------------------------- *)
\* the elements "for (var i in websockets)" walks through, in index order
Items(websockets) ==
  IF isObject(websockets) THEN <<websockets>>
  ELSE IF isArray(websockets) THEN websockets.v
  ELSE <<>>

Min(S) == CHOOSE x \in S : \A y \in S : x <= y

(* ------------------------- handler bodies ------------------------------ *)
\* register without the test of the url
RECURSIVE registerLoop_noGuard(_, _)
registerLoop_noGuard(list, items) ==
  IF items = <<>> THEN list
  ELSE LET ws == Head(items).v[1]
       IN registerLoop_noGuard(add(list, ToKey(url(ws)), ws), Tail(items))

\* register, lines 54-56: add every websocket whose url is not empty
RECURSIVE registerLoop(_, _)
registerLoop(list, items) ==
  IF items = <<>> THEN list
  ELSE LET ws == Head(items).v[1]
       IN registerLoop(IF ~isEmpty(url(ws)) THEN add(list, ToKey(url(ws)), ws) ELSE list,
                       Tail(items))

\* unregister that stops after the first websocket
unregisterLoop_firstOnly(list, items) ==
  IF items = <<>> THEN list ELSE removeAtKey(list, ToKey(url(Head(items).v[1])))

\* unregister that removes nothing
unregisterLoop_skip(list, items) == list

\* unregister, lines 98-100
RECURSIVE unregisterLoop(_, _)
unregisterLoop(list, items) ==
  IF items = <<>> THEN list
  ELSE LET key == ToKey(url(Head(items).v[1]))
       IN unregisterLoop(IF containsKey(list, key) THEN removeAtKey(list, key) ELSE list,
                         Tail(items))

\* multicast, lines 136-138: the elements themselves are used as keys
RECURSIVE excludeLoop(_, _)
excludeLoop(list, items) ==
  IF items = <<>> THEN list
  ELSE excludeLoop(removeAtKey(list, ToKey(Head(items))), Tail(items))

\* wsList.each with the callback "if (websocket.isReady ()) websocket.send (...)":
\* entries are visited in insertion order; a send that throws ends the walk
sendEach(list, rdy, bad, event, message) ==
  LET thrower == {i \in DOMAIN list : isReady(rdy, list[i].value) /\ list[i].value \in bad}
      stop == IF thrower = {} THEN Len(list) ELSE Min(thrower)
      hit == SelectSeq(SubSeq(list, 1, stop), LAMBDA en : isReady(rdy, en.value))
  IN [calls |-> [i \in DOMAIN hit |-> Call(hit[i].value, "send", event, message)],
      thrown |-> thrower # {}]

\* wsList.each with the callback "websocket.disconnect ()"
disconnectEach(list, bad) ==
  LET thrower == {i \in DOMAIN list : list[i].value \in bad}
      stop == IF thrower = {} THEN Len(list) ELSE Min(thrower)
  IN [calls |-> [i \in 1..stop |-> Call(list[i].value, "disconnect", "", "")],
      thrown |-> thrower # {}]

\* what a caller's function does to the map when it is given the websocket ws
fnEffect(list, fn, ws) ==
  CASE fn.v[1] = "register" -> registerLoop(list, <<Obj(fn.v[2])>>)
    [] fn.v[1] = "unregister" -> unregisterLoop(list, <<Obj(fn.v[2])>>)
    [] fn.v[1] = "unregisterGiven" -> unregisterLoop(list, <<Obj(ws)>>)
    [] OTHER -> list

\* a callback that hands the result of fn on to wsList.each
callbackResult_passes(fn) == fn.v[3]

\* each, lines 85-87: the callback calls fn (websocket) and returns nothing
callbackResult(fn) == "undefined"

\* wsList.each that walks the map itself: an entry removed before its turn is
\* passed over, an entry added on the way gets its turn
RECURSIVE eachLoop_live(_, _, _, _)
eachLoop_live(items, list, fn, calls) ==
  LET seen == {ToKey(url(calls[i].ws)) : i \in DOMAIN calls}
      todo == SelectSeq(list, LAMBDA en : en.key \notin seen)
  IN IF todo = <<>>
     THEN [list |-> list, calls |-> calls]
     ELSE LET ws == Head(todo).value
              now == Append(calls, Call(ws, "fn", "", ""))
          IN IF callbackResult(fn) = "false"
             THEN [list |-> fnEffect(list, fn, ws), calls |-> now]
             ELSE eachLoop_live(items, fnEffect(list, fn, ws), fn, now)

\* wsList.each under each, lines 85-87: Ext.util.HashMap.each walks a copy
\* of the map taken when it starts (items), in insertion order, while fn acts
\* on the map itself (list); it stops when the callback returns false
RECURSIVE eachLoop(_, _, _, _)
eachLoop(items, list, fn, calls) ==
  IF items = <<>>
  THEN [list |-> list, calls |-> calls]
  ELSE LET ws == Head(items).value
           now == Append(calls, Call(ws, "fn", "", ""))
       IN IF callbackResult(fn) = "false"
          THEN [list |-> fnEffect(list, fn, ws), calls |-> now]
          ELSE eachLoop(Tail(items), fnEffect(list, fn, ws), fn, now)

\* the websockets a run of calls has closed: every disconnect() that returned
Closed(calls, bad) ==
  {calls[i].ws : i \in {j \in DOMAIN calls : calls[j].method = "disconnect" /\ calls[j].ws \notin bad}}

(* --------------------------- observation ------------------------------- *)
\* the most recent manager call: its arguments, the map it started from, the
\* calls it made on websockets, in order, whether it ended by a throw, and
\* the value it returned
Record(op, args, event, message, calls, thrown) ==
  [op |-> op, args |-> args, event |-> event, message |-> message,
   before |-> wsList, calls |-> calls, thrown |-> thrown, ret |-> Undefined]

Returned(op, args, ret) ==
  [Record(op, args, "", "", <<>>, FALSE) EXCEPT !.ret = ret]

Idle == [op |-> "none", args |-> Undefined, event |-> "", message |-> "",
         before |-> <<>>, calls |-> <<>>, thrown |-> FALSE, ret |-> Undefined]

(* ----------------------------- inputs ---------------------------------- *)
\* the arrays of at most n distinct elements of S
SeqsUpTo(S, n) ==
  UNION {{q \in [1..k -> S] : \A i, j \in 1..k : q[i] = q[j] => i = j} : k \in 0..n}

\* register and contains are tried with every websocket; the arrays, and the
\* websockets unregister and disconnect are given, have one websocket of each
\* kind of url (shared, alone, empty); multicast, which never reads the url
\* of what it is given, is tried with the websockets that can be registered
WebSocketObjects == {Obj(ws) : ws \in Sockets}
KnownObjects == {Obj(ws) : ws \in Sockets \ {"f"}}
KnownArrays == {Arr(q) : q \in SeqsUpTo(KnownObjects, MaxArgs)}
OpenObjects == {Obj(ws) : ws \in Connectable}
OpenArrays == {Arr(q) : q \in SeqsUpTo(OpenObjects, MaxArgs)}

\* the url strings a caller may pass: the urls in use and one nobody has
UrlStrings == {Str("u1"), Str("u2"), Str("u3")}
UrlArrays == {Arr(q) : q \in SeqsUpTo(UrlStrings, MaxArgs)}

\* the functions handed to each: one that only looks, one that returns false,
\* and those that register or unregister a websocket from inside the walk
Functions ==
  {Fn("nothing", "", r) : r \in {"undefined", "false"}}
    \cup {Fn("unregisterGiven", "", "undefined")}
    \cup {Fn("register", ws, "undefined") : ws \in Sockets}
    \cup {Fn("unregister", ws, "undefined") : ws \in Sockets \ {"f"}}

(* ------------------------------ state ---------------------------------- *)
Init ==
  /\ wsList = <<>>
  /\ ready = {}
  /\ faulty = {}
  /\ last = Idle

(* ----------------------------- handlers -------------------------------- *)
register(websockets) ==
  /\ wsList' = registerLoop(wsList, Items(websockets))
  /\ last' = Record("register", websockets, "", "", <<>>, FALSE)
  /\ UNCHANGED <<ready, faulty>>

\* contains that looks for the websocket itself
contains_identity(websocket) == \E i \in DOMAIN wsList : wsList[i].value = websocket.v[1]

\* the value contains returns, and the call
contains(websocket) == containsKey(wsList, ToKey(url(websocket.v[1])))

callContains(websocket) ==
  /\ last' = Returned("contains", websocket, Bool(contains(websocket)))
  /\ UNCHANGED <<wsList, ready, faulty>>

\* the value get returns, and the call
get(u) == hmGet(wsList, ToKey(u))

callGet(u) ==
  /\ last' = Returned("get", u, get(u))
  /\ UNCHANGED <<wsList, ready, faulty>>

each(fn) ==
  LET r == eachLoop(wsList, wsList, fn, <<>>)
  IN /\ wsList' = r.list
     /\ last' = Record("each", fn, "", "", r.calls, FALSE)
     /\ UNCHANGED <<ready, faulty>>

unregister(websockets) ==
  /\ wsList' = unregisterLoop(wsList, Items(websockets))
  /\ last' = Record("unregister", websockets, "", "", <<>>, FALSE)
  /\ UNCHANGED <<ready, faulty>>

broadcast(event, message) ==
  LET r == sendEach(wsList, ready, faulty, event, message)
  IN /\ last' = Record("broadcast", Undefined, event, message, r.calls, r.thrown)
     /\ UNCHANGED <<wsList, ready, faulty>>

multicast(websockets, event, message) ==
  LET none == websockets.t \in {"undefined", "null"}
      b == IF none THEN sendEach(wsList, ready, faulty, event, message)
           ELSE [calls |-> <<>>, thrown |-> FALSE]
      excl == IF ~none /\ isObject(websockets) THEN Arr(<<websockets>>) ELSE websockets
      list == excludeLoop(wsList, excl.v)
      r == sendEach(list, ready, faulty, event, message)
  IN IF b.thrown \/ ~isArray(excl)
     THEN /\ last' = Record("multicast", websockets, event, message, b.calls, b.thrown)
          /\ UNCHANGED <<wsList, ready, faulty>>
     ELSE /\ wsList' = list
          /\ last' = Record("multicast", websockets, event, message, b.calls \o r.calls, r.thrown)
          /\ UNCHANGED <<ready, faulty>>

\* disconnect that removes the entry before it calls disconnect()
disconnect_removeFirst(websocket) ==
  LET key == ToKey(url(websocket.v[1]))
      target == hmGet(wsList, key).v[1]
  IN IF containsKey(wsList, key)
     THEN /\ wsList' = removeAtKey(wsList, key)
          /\ ready' = IF target \in faulty THEN ready ELSE ready \ {target}
          /\ last' = Record("disconnect", websocket, "", "",
                            <<Call(target, "disconnect", "", "")>>, target \in faulty)
          /\ UNCHANGED faulty
     ELSE /\ last' = Record("disconnect", websocket, "", "", <<>>, FALSE)
          /\ UNCHANGED <<wsList, ready, faulty>>

disconnect(websocket) ==
  LET key == ToKey(url(websocket.v[1]))
      target == hmGet(wsList, key).v[1]
  IN IF containsKey(wsList, key)
     THEN IF target \in faulty
          THEN /\ last' = Record("disconnect", websocket, "", "",
                                 <<Call(target, "disconnect", "", "")>>, TRUE)
               /\ UNCHANGED <<wsList, ready, faulty>>
          ELSE /\ wsList' = removeAtKey(wsList, key)
               /\ ready' = ready \ {target}
               /\ last' = Record("disconnect", websocket, "", "",
                                 <<Call(target, "disconnect", "", "")>>, FALSE)
               /\ UNCHANGED faulty
     ELSE /\ last' = Record("disconnect", websocket, "", "", <<>>, FALSE)
          /\ UNCHANGED <<wsList, ready, faulty>>

disconnectAll ==
  LET r == disconnectEach(wsList, faulty)
  IN /\ ready' = ready \ Closed(r.calls, faulty)
     /\ last' = Record("disconnectAll", Undefined, "", "", r.calls, r.thrown)
     /\ UNCHANGED <<wsList, faulty>>

(* ------------------- the websockets' own life ------------------------- *)
\* a connection opens or closes
onopen(ws) ==
  /\ ws \notin ready
  /\ ready' = ready \cup {ws}
  /\ last' = Idle
  /\ UNCHANGED <<wsList, faulty>>

onclose(ws) ==
  /\ ws \in ready
  /\ ready' = ready \ {ws}
  /\ last' = Idle
  /\ UNCHANGED <<wsList, faulty>>

\* a websocket starts or stops throwing from send() and disconnect()
breaks(ws) ==
  /\ ws \notin faulty
  /\ Cardinality(faulty) < MaxFaulty
  /\ faulty' = faulty \cup {ws}
  /\ last' = Idle
  /\ UNCHANGED <<wsList, ready>>

recovers(ws) ==
  /\ ws \in faulty
  /\ faulty' = faulty \ {ws}
  /\ last' = Idle
  /\ UNCHANGED <<wsList, ready>>

Next ==
  \/ \E w \in WebSocketObjects \cup KnownArrays : register(w)
  \/ \E w \in WebSocketObjects : callContains(w)
  \/ \E u \in UrlStrings : callGet(u)
  \/ \E fn \in Functions : each(fn)
  \/ \E w \in KnownObjects \cup KnownArrays : unregister(w)
  \/ \E e \in Events, m \in Messages : broadcast(e, m)
  \/ \E w \in {Undefined, Null} \cup UrlStrings \cup UrlArrays \cup OpenObjects \cup OpenArrays,
        e \in Events, m \in Messages : multicast(w, e, m)
  \/ \E w \in KnownObjects : disconnect(w)
  \/ disconnectAll
  \/ \E ws \in Connectable : onopen(ws)
  \/ \E ws \in Connectable : onclose(ws)
  \/ \E ws \in Connectable : breaks(ws)
  \/ \E ws \in Connectable : recovers(ws)

Spec == Init /\ [][Next]_vars

TypeOK ==
  /\ ready \subseteq Connectable
  /\ faulty \subseteq Connectable

(* ===================== properties of the manager ======================= *)
\* the elements the observed call walked through
LastItems == Items(last.args)

\* how often the observed call sent its event and message to ws
SendCount(ws) ==
  Cardinality({i \in DOMAIN last.calls :
                 /\ last.calls[i].ws = ws
                 /\ last.calls[i].method = "send"
                 /\ last.calls[i].event = last.event
                 /\ last.calls[i].message = last.message})

DisconnectCount(ws) ==
  Cardinality({i \in DOMAIN last.calls :
                 last.calls[i].ws = ws /\ last.calls[i].method = "disconnect"})

\* every call the observed call made is a send of its event and message
OnlySends == \A ws \in Sockets : SendCount(ws) = Cardinality({i \in DOMAIN last.calls : last.calls[i].ws = ws})

OnlyDisconnects ==
  \A ws \in Sockets : DisconnectCount(ws) = Cardinality({i \in DOMAIN last.calls : last.calls[i].ws = ws})

\* ws was in the map when the observed call started
WasRegistered(ws) == \E i \in DOMAIN last.before : last.before[i].value = ws

\* ws was in the map, under a key outside K, when the observed call started
WasRegisteredOutside(ws, K) ==
  \E i \in DOMAIN last.before : last.before[i].value = ws /\ last.before[i].key \notin K

AllStrings(items) == \A i \in DOMAIN items : items[i].t = "string"
AllObjects(items) == \A i \in DOMAIN items : items[i].t = "object"

\* C1: multicast leaves the key -> websocket mapping exactly as it found it,
\* whatever the exclusion argument is.
C1_MulticastKeepsMap == last.op = "multicast" => wsList = last.before

\* C2: multicast with an array of keys sends the event and message exactly
\* once to every registered ready websocket whose key is not in the array, and
\* sends nothing to the excluded ones nor to those that are not ready.
C2_MulticastExcludesKeys ==
  (last.op = "multicast" /\ isArray(last.args) /\ AllStrings(last.args.v)) =>
    LET K == {last.args.v[i].v[1] : i \in DOMAIN last.args.v}
    IN /\ OnlySends
       /\ \A ws \in Sockets :
            SendCount(ws) = IF WasRegisteredOutside(ws, K) /\ isReady(ready, ws) THEN 1 ELSE 0

\* C3: multicast with one registered ready websocket object, or an array of
\* them, sends nothing to these websockets and sends exactly once to every
\* other registered ready websocket.
C3_MulticastExcludesObjects ==
  LET given == {LastItems[i].v[1] : i \in DOMAIN LastItems}
  IN (/\ last.op = "multicast"
      /\ LastItems # <<>>
      /\ AllObjects(LastItems)
      /\ \A ws \in given : WasRegistered(ws) /\ isReady(ready, ws)) =>
       /\ \A ws \in given : SendCount(ws) = 0
       /\ \A ws \in Sockets \ given :
            (WasRegistered(ws) /\ isReady(ready, ws)) => SendCount(ws) = 1

\* C4: multicast with undefined, null or an empty array does what broadcast
\* does: one send to each registered ready websocket, none to a websocket that
\* is not ready, and none twice.
C4_MulticastNoExclusion ==
  (last.op = "multicast" /\ (last.args.t \in {"undefined", "null"} \/ last.args = Arr(<<>>))) =>
    /\ OnlySends
    /\ \A ws \in Sockets :
         SendCount(ws) = IF WasRegistered(ws) /\ isReady(ready, ws) THEN 1 ELSE 0

\* C5: broadcast sends exactly once to every registered websocket that is
\* ready and never to one that is not; nothing is queued or thrown for those.
C5_BroadcastReadyOnly ==
  last.op = "broadcast" =>
    /\ OnlySends
    /\ \A ws \in Sockets :
         SendCount(ws) = IF WasRegistered(ws) /\ isReady(ready, ws) THEN 1 ELSE 0
    /\ (\A ws \in Sockets : WasRegistered(ws) => ws \notin faulty) => ~last.thrown

\* C6: when one websocket's send throws during broadcast, every other
\* registered ready websocket is still sent to in that same call.
C6_BroadcastIsolatesFailure ==
  (last.op = "broadcast" /\ last.thrown) =>
    \A ws \in Sockets : (WasRegistered(ws) /\ isReady(ready, ws)) => SendCount(ws) >= 1

\* C7: disconnectAll calls disconnect() on every registered websocket and
\* removes nothing: every key still maps to the websocket it mapped to.
C7_DisconnectAllKeepsMap ==
  last.op = "disconnectAll" =>
    /\ OnlyDisconnects
    /\ \A ws \in Sockets : WasRegistered(ws) => DisconnectCount(ws) >= 1
    /\ wsList = last.before
    /\ \A i \in DOMAIN last.before : get(Str(last.before[i].key)) = Obj(last.before[i].value)

\* the keys of a map, and the map read as a function of its keys
KeysOf(list) == {list[i].key : i \in DOMAIN list}
EntryCount(list, key) == Cardinality({i \in DOMAIN list : list[i].key = key})
ValuesOf(list) == {list[i].value : i \in DOMAIN list}

\* list holds exactly the entries of old whose key is not in K, unchanged
SameExcept(list, old, K) ==
  /\ KeysOf(list) = KeysOf(old) \ K
  /\ \A k \in KeysOf(list) : EntryCount(list, k) = 1 /\ hmGet(list, k) = hmGet(old, k)

\* C8 as first stated: disconnect(websocket) calls disconnect() once on the
\* websocket stored under the url and then removes the entry; with an
\* unregistered url it calls nothing and changes nothing.
C8_DisconnectRemoves ==
  last.op = "disconnect" =>
    LET key == ToKey(url(last.args.v[1]))
    IN IF containsKey(last.before, key)
       THEN /\ last.calls = <<Call(hmGet(last.before, key).v[1], "disconnect", "", "")>>
            /\ SameExcept(wsList, last.before, {key})
       ELSE /\ last.calls = <<>>
            /\ wsList = last.before

\* C8: disconnect(websocket) calls disconnect() once on the websocket stored
\* under the url; when that call returns the entry is removed, when it throws
\* the map is left as it was; with an unregistered url nothing is called and
\* nothing changes.
C8_DisconnectRemovesOnReturn ==
  last.op = "disconnect" =>
    LET key == ToKey(url(last.args.v[1]))
    IN IF containsKey(last.before, key)
       THEN /\ last.calls = <<Call(hmGet(last.before, key).v[1], "disconnect", "", "")>>
            /\ IF last.thrown
               THEN wsList = last.before
               ELSE SameExcept(wsList, last.before, {key})
       ELSE /\ last.calls = <<>>
            /\ ~last.thrown
            /\ wsList = last.before

\* disconnect(a) closed and removed b, which had taken a's url
C8_Witness ==
  /\ last.op = "disconnect"
  /\ last.args = Obj("a")
  /\ last.before = <<[key |-> "u2", value |-> "c"], [key |-> "u1", value |-> "b"]>>
  /\ last.calls = <<Call("b", "disconnect", "", "")>>
  /\ wsList = <<[key |-> "u2", value |-> "c"]>>

\* the url of ws is one register skips
EmptyUrl(ws) == url(ws).t \in {"undefined", "null"} \/ url(ws) = Str("")

\* the last websocket with key k among the elements of the observed call
Winner(k) ==
  LET at == {i \in DOMAIN LastItems :
               ~EmptyUrl(LastItems[i].v[1]) /\ url(LastItems[i].v[1]) = Str(k)}
  IN LastItems[CHOOSE i \in at : \A j \in at : j <= i]

\* C9: after register, each url that occurs among the registered websockets
\* has exactly one entry, get(url) returns the last websocket given for it, and
\* any other websocket given or stored before under that url is out of the map.
C9_LastWriteWins ==
  last.op = "register" =>
    \A i \in DOMAIN LastItems :
      LET ws == LastItems[i].v[1]
          k == url(ws).v[1]
      IN ~EmptyUrl(ws) =>
           /\ EntryCount(wsList, k) = 1
           /\ get(url(ws)) = Winner(k)
           /\ \A other \in Sockets :
                (other # Winner(k).v[1] /\ (Obj(other) = LastItems[i] \/ hmGet(last.before, k) = Obj(other)))
                  => other \notin ValuesOf(wsList)

\* register([a, b]) with a and b of one url left b alone under it
C9_Witness ==
  /\ last.op = "register"
  /\ last.args = Arr(<<Obj("a"), Obj("b")>>)
  /\ get(Str("u1")) = Obj("b")
  /\ "a" \notin ValuesOf(wsList)

\* C10: register skips a websocket whose url is empty or missing without an
\* error: it is not contained afterwards, the map gains no key for it, and
\* the websockets with a url in the same array are contained afterwards.
C10_EmptyKeySkipped ==
  last.op = "register" =>
    /\ ~last.thrown
    /\ \A i \in DOMAIN LastItems :
         contains(LastItems[i]) <=> ~EmptyUrl(LastItems[i].v[1])
    /\ KeysOf(wsList) = KeysOf(last.before) \cup
         {url(LastItems[i].v[1]).v[1] : i \in {j \in DOMAIN LastItems : ~EmptyUrl(LastItems[j].v[1])}}
    /\ (\A i \in DOMAIN LastItems : EmptyUrl(LastItems[i].v[1])) => wsList = last.before

\* register([e, c]) skipped e, whose url is "", and took c
C10_Witness ==
  /\ last.op = "register"
  /\ last.args = Arr(<<Obj("e"), Obj("c")>>)
  /\ ~contains(Obj("e"))
  /\ contains(Obj("c"))
  /\ last.before = <<[key |-> "u1", value |-> "a"]>>
  /\ wsList = <<[key |-> "u1", value |-> "a"], [key |-> "u2", value |-> "c"]>>

\* the maps list and old agree on every key but k
AgreeBut(list, old, k) ==
  /\ KeysOf(list) \ {k} = KeysOf(old) \ {k}
  /\ \A k2 \in KeysOf(list) \ {k} :
       EntryCount(list, k2) = 1 /\ EntryCount(old, k2) = 1 /\ hmGet(list, k2) = hmGet(old, k2)

\* C11: when unregister(h) directly follows register(h), for one websocket h
\* with a non-empty url, contains(h) is true between the two calls and false
\* after them, and every entry under another url is what it was before them.
C11_RoundTrip ==
  [][(/\ last.op = "register" /\ isObject(last.args) /\ ~EmptyUrl(last.args.v[1])
      /\ last'.op = "unregister" /\ last'.args = last.args)
     => (/\ contains(last.args)
         /\ ~contains(last.args)'
         /\ AgreeBut(wsList', last.before, url(last.args.v[1]).v[1]))]_vars

\* unregister(a) has just undone register(a) beside the entry of c
C11_Witness ==
  /\ last.op = "unregister"
  /\ last.args = Obj("a")
  /\ last.before = <<[key |-> "u2", value |-> "c"], [key |-> "u1", value |-> "a"]>>
  /\ wsList = <<[key |-> "u2", value |-> "c"]>>

\* what one unregister call leaves behind: no call on any websocket, no
\* throw, and the map it found less the urls of the websockets it was given
UnregisterForgets ==
  last.op = "unregister" =>
    /\ last.calls = <<>>
    /\ ~last.thrown
    /\ SameExcept(wsList, last.before, {ToKey(url(LastItems[i].v[1])) : i \in DOMAIN LastItems})

\* C12: unregister calls disconnect() on no websocket and closes none, removes
\* exactly the entries under the urls of the websockets given, ignores urls
\* that are not registered, and repeating the same call changes nothing more.
C12_UnregisterOnlyForgets ==
  [][/\ last'.op = "unregister" => (UnregisterForgets' /\ ready' = ready)
     /\ (last.op = "unregister" /\ last'.op = "unregister" /\ last'.args = last.args)
          => (wsList' = wsList /\ ~last'.thrown)]_vars

\* unregister([b, e]) removed the entry under b's url, which held a, let the
\* unregistered url of e pass, and left c alone
C12_Witness ==
  /\ last.op = "unregister"
  /\ last.args = Arr(<<Obj("b"), Obj("e")>>)
  /\ last.before = <<[key |-> "u1", value |-> "a"], [key |-> "u2", value |-> "c"]>>
  /\ wsList = <<[key |-> "u2", value |-> "c"]>>
  /\ last.calls = <<>>
  /\ "a" \in ready

C14_GetOrUndefined ==
  last.op = "get" =>
    /\ ~last.thrown
    /\ wsList = last.before
    /\ IF \E i \in DOMAIN wsList : Str(wsList[i].key) = last.args
       THEN \E i \in DOMAIN wsList : Str(wsList[i].key) = last.args /\ last.ret = Obj(wsList[i].value)
       ELSE last.ret = Undefined

\* get('u1') answered undefined while only c, under u2, is registered
C14_Witness ==
  /\ last.op = "get"
  /\ last.args = Str("u1")
  /\ wsList = <<[key |-> "u2", value |-> "c"]>>
  /\ last.ret = Undefined

\* how often the observed call handed the value x to the caller's function
FnCount(x) ==
  Cardinality({i \in DOMAIN last.calls : last.calls[i].ws = x /\ last.calls[i].method = "fn"})

\* the function was called once with each websocket the map held when the
\* call started, and with nothing else
EachVisitsAll ==
  /\ Len(last.calls) = Len(last.before)
  /\ \A i \in DOMAIN last.calls : last.calls[i].method = "fn" /\ last.calls[i].ws \in Sockets
  /\ \A ws \in Sockets : FnCount(ws) = IF WasRegistered(ws) THEN 1 ELSE 0

\* C15: each(fn), with an fn that leaves the registry alone, calls fn once
\* with every websocket registered at the time of the call and with no other
\* value, whatever fn returns.
C15_EachVisitsAll ==
  (last.op = "each" /\ last.args.v[1] = "nothing") => (EachVisitsAll /\ wsList = last.before)

\* each went through both registered websockets although fn returned false
C15_Witness ==
  /\ last.op = "each"
  /\ last.args = Fn("nothing", "", "false")
  /\ last.before = <<[key |-> "u2", value |-> "c"], [key |-> "u1", value |-> "b"]>>
  /\ last.calls = <<Call("c", "fn", "", ""), Call("b", "fn", "", "")>>

Entering == ValuesOf(wsList') \ ValuesOf(wsList)
Leaving == ValuesOf(wsList) \ ValuesOf(wsList')

\* the step is a call that registers ws: register with ws among its
\* websockets, or each with a function that registers ws
RegistersNow(ws) ==
  \/ last'.op = "register" /\ \E i \in DOMAIN Items(last'.args) : Items(last'.args)[i] = Obj(ws)
  \/ last'.op = "each" /\ last'.args.v[1] = "register" /\ last'.args.v[2] = ws

\* a websocket gets into the map only by being registered, and is out of it
\* after the unregister call, or the disconnect call that returned, for it
InsertedNotRemoved ==
  /\ \A ws \in Entering : RegistersNow(ws)
  /\ last'.op = "unregister" =>
       \A i \in DOMAIN Items(last'.args) : Items(last'.args)[i].v[1] \notin ValuesOf(wsList')
  /\ (last'.op = "disconnect" /\ ~last'.thrown) =>
       /\ last'.args.v[1] \notin ValuesOf(wsList')
       /\ \A i \in DOMAIN last'.calls : last'.calls[i].ws \notin ValuesOf(wsList')

\* C16 as first stated: every websocket in the map was put there by register
\* and has not since been unregistered, removed by disconnect(websocket), or
\* disconnected by disconnectAll.
C16_OnlyLiveRegistered ==
  [][/\ InsertedNotRemoved
     /\ last'.op = "disconnectAll" =>
          \A i \in DOMAIN last'.calls : last'.calls[i].ws \notin ValuesOf(wsList')]_vars

\* C16: every websocket in the map was put there by register and has not
\* since been unregistered or removed by disconnect(websocket); the
\* websockets disconnected by disconnectAll stay in the map.
C16_OnlyRegistered ==
  [][/\ InsertedNotRemoved
     /\ last'.op = "disconnectAll" => wsList' = wsList]_vars

\* disconnectAll has closed a and c, and both are still registered
C16_Witness ==
  /\ last.op = "disconnectAll"
  /\ last.calls = <<Call("a", "disconnect", "", ""), Call("c", "disconnect", "", "")>>
  /\ ~last.thrown
  /\ wsList = <<[key |-> "u1", value |-> "a"], [key |-> "u2", value |-> "c"]>>

\* C17: broadcast never changes the map, whether a send throws or a websocket
\* is not ready, and a websocket leaves the map only through unregister,
\* through disconnect(websocket), or by register putting another websocket
\* under its url.
C17_NoEviction ==
  [][/\ last'.op = "broadcast" => wsList' = wsList
     /\ \A ws \in Leaving :
          \/ last'.op \in {"unregister", "disconnect"}
          \/ last'.op = "each" /\ last'.args.v[1] \in {"unregister", "unregisterGiven"}
          \/ /\ last'.op = "register" \/ (last'.op = "each" /\ last'.args.v[1] = "register")
             /\ \E i \in DOMAIN wsList' :
                  Str(wsList'[i].key) = url(ws) /\ wsList'[i].value # ws]_vars

\* C19: every entry of the map sits under a non-empty key, and that key is
\* the url of the websocket stored there.
C19_KeyIsUrl ==
  \A i \in DOMAIN wsList : wsList[i].key # "" /\ Str(wsList[i].key) = url(wsList[i].value)

\* after register, unregister and a multicast that excluded nothing, b and c
\* sit under their own urls
C19_Witness ==
  /\ last.op = "multicast"
  /\ last.args = Arr(<<Str("u3")>>)
  /\ wsList = <<[key |-> "u1", value |-> "b"], [key |-> "u2", value |-> "c"]>>

\* C20: disconnect(websocket) calls disconnect() on the registered websocket
\* before it removes the entry: when that call throws the map is what it was,
\* and the map only changes when the call has returned.
C20_FailedDisconnectKeeps ==
  last.op = "disconnect" =>
    /\ last.thrown =>
         /\ wsList = last.before
         /\ Len(last.calls) = 1
         /\ last.calls[1].method = "disconnect"
         /\ last.calls[1].ws \in ValuesOf(wsList)
    /\ wsList # last.before =>
         /\ ~last.thrown
         /\ Len(last.calls) = 1
         /\ last.calls[1].method = "disconnect"
         /\ last.calls[1].ws \in ValuesOf(last.before) \ ValuesOf(wsList)

\* disconnect(b) threw from the disconnect() of a, which is still registered
C20_Witness ==
  /\ last.op = "disconnect"
  /\ last.args = Obj("b")
  /\ last.thrown
  /\ last.calls = <<Call("a", "disconnect", "", "")>>
  /\ wsList = <<[key |-> "u1", value |-> "a"]>>

====
